---- MODULE Spec2Model ----
(***************************************************************************)
(* Hazard-driven circuit breaker (src/hazard_circuit_breaker.py).          *)
(*                                                                         *)
(* The model is a state machine of one CircuitBreakerManager shared by the *)
(* caller threads of Threads, together with its FeedbackCheckpointer, its  *)
(* Mitigation, the audit log and the class-wide worker pool of Handler.    *)
(*                                                                         *)
(* Numbers.  Python floats are held as scaled integers:                    *)
(*   - time is in whole seconds;                                           *)
(*   - the weights of RiskParams and the threshold are in tenths;          *)
(*   - features (failure rate, seasonal factor, volatility, severity) are  *)
(*     in 1/600ths, so that count/60 is exact;                             *)
(*   - the raw score is therefore in 1/6000ths.                            *)
(***************************************************************************)
EXTENDS Integers, Sequences, FiniteSets, TLC

\* ------------------------------------------------------------------ bounds
MaxTicks == 2
TickSeconds == 40
MaxCalls == 5
MaxDepth == 2
MaxEvents == 3
MaxAppends == 3

\* ------------------------------------------------------- program constants
FailureWindow == 60
VolatilityWindow == 300
max_workers == 4

Scale == 10 * 60

None == "None"
NoThread == 0
Threads == {1, 2}

\* Keys a caller may pass to execute / Mitigation.apply.  None is the default
\* of the key parameter.
Keys == {None, "k1", "k2"}
\* Values a cache entry or the fallback may hold.
Vals == {"v1", "v2"}
\* The value the wrapped operation returns.
OpResult == "R"

States == {"CLOSED", "OPEN", "HALF_OPEN"}

VARIABLES
    params,       \* RiskStrategy.params (RiskParams, frozen)
    cooldown,     \* CircuitBreakerManager.cooldown
    time_budget,  \* RiskStrategy.time_budget (0: unset)
    memory_budget,
                  \* RiskStrategy.memory_budget, in bytes (0: unset)
    fallback,     \* Mitigation.fallback
    cache,        \* Mitigation.cache
    state,        \* CircuitBreakerManager.state
    last_event,   \* CircuitBreakerManager.last_event
    lock_owner,   \* CircuitBreakerManager._lock: owning thread
    lock_count,   \* CircuitBreakerManager._lock: recursion level
    events,       \* FeedbackCheckpointer._events
    log,          \* the audit sink: one event name per line
    now,          \* time.time()
    stack,        \* per thread, the execute calls in progress, innermost last
    op_calls,     \* how many times a wrapped operation has been started
    n_exec,       \* how many times execute has been called
    pool_hung,    \* Handler._executor: workers held by operations that never return
    futures_timeout_is_builtin,
                  \* whether concurrent.futures.TimeoutError is the builtin
                  \* TimeoutError (Python >= 3.11) or a class of its own
    last,         \* what the most recent finished call did and gave its caller
    sink,         \* SecureLogger: the lines of the logfile
    last_hash,    \* SecureLogger._last_hash
    logger_lock,  \* SecureLogger._lock: owning thread
    logging,      \* per thread, the log_event call in progress
    acquired,     \* the log_event calls in the order they took the logger's lock
    checkpoints,  \* FeedbackCheckpointer._checkpoints
    breaker,      \* src/breaker.py: a CircuitBreaker, its config and its fields
    calls,        \* per thread, the CircuitBreaker.call / call_async in progress
    retry         \* src/retry.py: a wrapper of retry_on_exception and its locals

\* The SecureLogger taken by itself.
logvars == <<sink, last_hash, logger_lock, logging, acquired>>

\* The manager with its strategy, checkpointer events and mitigation.
managervars == <<params, cooldown, time_budget, memory_budget, fallback, cache, state,
                 last_event, lock_owner, lock_count, events, log, now, stack, op_calls,
                 n_exec, pool_hung, futures_timeout_is_builtin, last>>

\* The checkpoint store, and the plain breaker and the retry wrapper of the
\* resilience package, which share nothing with the manager but the clock.
sidevars == <<checkpoints, breaker, calls, retry>>

vars == <<params, cooldown, time_budget, memory_budget, fallback, cache, state,
          last_event, lock_owner, lock_count, events, log, now, stack, op_calls,
          n_exec, pool_hung, futures_timeout_is_builtin, last, logvars, sidevars>>

\* ----------------------------------------------------------- SecureLogger

\* A text is a sequence of runs: n times the character ch.  The characters are
\* an ordinary one, newline, carriage return, the blank, and, as one unit of
\* fourteen characters, the suffix sanitize adds.
TruncatedSuffix == "...[truncated]"
SuffixLen == 14
SanitizeLimit == 1024

Run(ch, n) == [ch |-> ch, n |-> n]

CharLen(ch) == IF ch = TruncatedSuffix THEN SuffixLen ELSE 1

\* len(s)
RECURSIVE TextLen(_)
TextLen(s) == IF s = <<>> THEN 0 ELSE CharLen(s[1].ch) * s[1].n + TextLen(Tail(s))

\* s[:k]
RECURSIVE Take(_, _)
Take(s, k) ==
    IF s = <<>> \/ k <= 0 THEN <<>>
    ELSE IF s[1].n <= k THEN <<s[1]>> \o Take(Tail(s), k - s[1].n)
    ELSE <<Run(s[1].ch, k)>>

\* data.replace("\n", " ").replace("\r", " "), line 61
ReplaceBreaks(s) ==
    [i \in DOMAIN s |-> IF s[i].ch \in {"\n", "\r"} THEN Run(" ", s[i].n) ELSE s[i]]

\* Variants of sanitize: carriage returns kept; no truncation.
sanitizeKeepsCR(data) ==
    LET s == [i \in DOMAIN data |->
                IF data[i].ch = "\n" THEN Run(" ", data[i].n) ELSE data[i]]
    IN  IF TextLen(s) > SanitizeLimit
        THEN Take(s, SanitizeLimit) \o <<Run(TruncatedSuffix, 1)>>
        ELSE s

sanitizeNoTruncation(data) == ReplaceBreaks(data)

\* SecureLogger.sanitize, lines 60-62
sanitize(data) ==
    LET s == ReplaceBreaks(data)
    IN  IF TextLen(s) > SanitizeLimit
        THEN Take(s, SanitizeLimit) \o <<Run(TruncatedSuffix, 1)>>
        ELSE s

\* The formatted entry of line 68: time stamp, event name, sanitized detail.
Entry(ts, event, safe) == [ts |-> ts, event |-> event, safe |-> safe]

\* SHA-256 taken as collision-free: the digest of previous digest ++ entry is
\* the chain of entries that went into it, and the digest standing for the
\* empty string (_last_hash None, line 69) is the empty chain.
EmptyHash == <<>>
sha256(prev, entry) == Append(prev, entry)

\* A line of the logfile, line 72.
Line(entry, digest) == [entry |-> entry, hash |-> digest]

\* No log_event call in progress on a thread.
NoLog == [pc |-> "idle", id |-> 0, event |-> "", value |-> <<>>,
          entry |-> Entry(0, "", <<>>), digest |-> EmptyHash]

\* SecureLogger.__init__, lines 55-58, over a logfile that does not exist yet.
LoggerInit ==
    /\ sink = <<>>
    /\ last_hash = EmptyHash
    /\ logger_lock = NoThread
    /\ logging = [t \in Threads |-> NoLog]
    /\ acquired = <<>>

\* ------------------------------------------------------------- Mitigation

\* An outcome handed to a caller: a returned value or a raised exception.
Return(v) == [kind |-> "return", val |-> v]
Raise(e) == [kind |-> "raise", val |-> e]

\* Mitigation.apply with the fallback looked at before the cache.
applyFallbackFirst(c, fb, key) ==
    [out |-> IF fb /= None THEN Return(fb)
             ELSE IF key /= None /\ key \in DOMAIN c THEN Return(c[key])
             ELSE Raise("OpenCircuitException:No fallback available."),
     cache |-> c,
     fallback |-> fb]

\* Mitigation.apply: the outcome, and the cache and fallback it leaves behind.
apply(c, fb, key) ==
    [out |-> IF key /= None /\ key \in DOMAIN c THEN Return(c[key])
             ELSE IF fb /= None THEN Return(fb)
             ELSE Raise("OpenCircuitException:No fallback available."),
     cache |-> c,
     fallback |-> fb]

\* --------------------------------------------------- FeedbackCheckpointer

NoDuration == 0 - 1

Event(t, typ, sev, dur) == [t |-> t, typ |-> typ, sev |-> sev, dur |-> dur]

\* Variant of DequeAppend: a full deque turns the new event away.
DequeAppendDropsNewest(ev, e) ==
    IF Len(ev) >= MaxEvents THEN ev ELSE Append(ev, e)

\* deque(maxlen = max_events).append: the oldest event falls out of a full deque.
DequeAppend(ev, e) ==
    LET all == Append(ev, e)
    IN  IF Len(all) > MaxEvents THEN SubSeq(all, Len(all) - MaxEvents + 1, Len(all))
        ELSE all

\* Variant of record_success: the event is appended twice.
record_successTwice(ev, t, dur) ==
    DequeAppend(DequeAppend(ev, Event(t, "SUCCESS", 0, dur)), Event(t, "SUCCESS", 0, dur))

\* record_success(duration): severity 0.0.
record_success(ev, t, dur) == DequeAppend(ev, Event(t, "SUCCESS", 0, dur))

\* record_failure(severity): no duration.  The severity is in tenths.
record_failure(ev, t, sev) == DequeAppend(ev, Event(t, "FAILURE", sev, NoDuration))

\* recent_failure_rate(window = 60.0), in 1/600ths per second.
recent_failure_rate(ev, t) ==
    LET cutoff == t - FailureWindow
        count == Cardinality({i \in DOMAIN ev : ev[i].typ = "FAILURE" /\ ev[i].t >= cutoff})
    IN  (count * Scale) \div FailureWindow

\* seasonal_factor(now): 1.2 in the hours 8..17 of the day, else 0.8, in 1/600ths.
seasonal_factor(t) ==
    LET hour == (t \div 3600) % 24
    IN  IF 8 <= hour /\ hour < 18 THEN (12 * Scale) \div 10 ELSE (8 * Scale) \div 10

RECURSIVE SumOver(_, _, _)
SumOver(ev, S, sq) ==
    IF S = {} THEN 0
    ELSE LET i == CHOOSE j \in S : TRUE
             d == ev[i].dur
         IN  (IF sq THEN d * d ELSE d) + SumOver(ev, S \ {i}, sq)

\* The largest r with r * r <= v.
ISqrt(v) == CHOOSE r \in 0..(Scale * MaxTicks * TickSeconds + Scale) :
                r * r <= v /\ (r + 1) * (r + 1) > v

\* volatility(window = 300.0): the population standard deviation of the
\* durations of the successes in the window whose duration is truthy (neither
\* None nor 0), in 1/600ths of a second, rounded down; 0 when there is none.
volatility(ev, t) ==
    LET cutoff == t - VolatilityWindow
        S == {i \in DOMAIN ev : ev[i].typ = "SUCCESS" /\ ev[i].dur > 0 /\ ev[i].t >= cutoff}
        n == Cardinality(S)
        s1 == SumOver(ev, S, FALSE)
        s2 == SumOver(ev, S, TRUE)
    IN  IF n = 0 THEN 0
        ELSE ISqrt((Scale * Scale * (n * s2 - s1 * s1)) \div (n * n))

\* last_error_severity(): the severity of the newest FAILURE, 0.0 if none;
\* in 1/600ths.
last_error_severity(ev) ==
    LET F == {i \in DOMAIN ev : ev[i].typ = "FAILURE"}
    IN  IF F = {} THEN 0
        ELSE LET i == CHOOSE j \in F : \A k \in F : k <= j
             IN  (ev[i].sev * Scale) \div 10

\* ----------------------------------------------------------- RiskStrategy

RiskParams(t0, tf, ts, tv, tsev, th) ==
    [theta0 |-> t0, theta_fail |-> tf, theta_season |-> ts, theta_vol |-> tv,
     theta_sev |-> tsev, threshold |-> th]

\* The linear combination of evaluate_risk, in 1/6000ths (weights in tenths
\* times features in 1/600ths).
raw_score(p, ev, t) ==
    p.theta0 * Scale
    + p.theta_fail * recent_failure_rate(ev, t)
    + p.theta_season * seasonal_factor(t)
    + (IF p.theta_vol = 0 THEN 0 ELSE p.theta_vol * volatility(ev, t))
    + p.theta_sev * last_error_severity(ev)

\* softplus(raw) > threshold, decided on the raw score: softplus is strictly
\* increasing, so the comparison is raw > ln(e^threshold - 1).  The table holds
\* floor(6000 * ln(e^threshold - 1)) for the thresholds the model uses
\* (threshold in tenths); softplus is positive, so it exceeds any threshold <= 0.
SoftplusAbove(raw, th) ==
    CASE th <= 0 -> TRUE
      [] th = 5  -> raw > 0 - 2597
      [] th = 10 -> raw > 3247
      [] th = 15 -> raw > 7485
      [] th = 20 -> raw > 11127

\* evaluate_risk(cp) > params.threshold
RiskExceeds(p, ev, t) == SoftplusAbove(raw_score(p, ev, t), p.threshold)

\* math.exp(x) raises OverflowError for x above 709.782712893384: in 1/6000ths,
\* for a raw score above 4258696.
ExpMax == 4258696

\* math.log1p(math.exp(raw)), in 1/6000ths rounded down, at the raw scores the
\* specifications of the risk score reach; from 37.0 upwards the float result
\* is raw itself.
softplus(raw) ==
    CASE raw >= 222000 -> raw
      [] raw = 0 - 18000 -> 291
      [] raw = 0 - 12000 -> 761
      [] raw = 0 - 6000 -> 1879
      [] raw = 0 - 3600 -> 2624
      [] raw = 0 - 3550 -> 2642
      [] raw = 0 - 3500 -> 2660
      [] raw = 0 - 3450 -> 2678
      [] raw = 0 - 1200 -> 3588
      [] raw = 0 - 1150 -> 3611
      [] raw = 0 - 1100 -> 3634
      [] raw = 0 - 1050 -> 3656
      [] raw = 0 -> 4158
      [] raw = 6000 -> 7879
      [] raw = 12000 -> 12761

\* RiskStrategy.evaluate_risk(cp): the risk score, or the OverflowError of
\* math.exp.
evaluate_risk(p, ev, t) ==
    LET raw == raw_score(p, ev, t)
    IN  IF raw > ExpMax THEN Raise("OverflowError") ELSE Return(softplus(raw))

\* ------------------------------------------------- ErrorHandler / Handler

\* Handler._fail: sev = 0.5 if isinstance(exc, TimeoutError) else 1.0 (tenths).
\* The exception of a timed-out Future is concurrent.futures.TimeoutError,
\* here "FuturesTimeoutError" where that is not the builtin class.
severity(exc) == IF exc = "TimeoutError" THEN 5 ELSE 10

\* Variant of handle: the risk is evaluated before the failure is recorded.
handleStaleRisk(p, ev, t, err, sev) ==
    LET trip == RiskExceeds(p, ev, t)
    IN  [events |-> record_failure(ev, t, sev),
         logged |-> IF trip THEN <<"ERROR", "TRIP">> ELSE <<"ERROR">>,
         trip |-> trip,
         fb |-> IF trip THEN "OpenCircuitException" ELSE err]

\* ErrorHandler.handle(err, sev): records the failure, re-evaluates the risk
\* and gives back an OpenCircuitException when it exceeds the threshold, else
\* err itself; with the events and the audit entries it leaves behind.
handle(p, ev, t, err, sev) ==
    LET ev2 == record_failure(ev, t, sev)
        trip == RiskExceeds(p, ev2, t)
    IN  [events |-> ev2,
         logged |-> IF trip THEN <<"ERROR", "TRIP">> ELSE <<"ERROR">>,
         trip |-> trip,
         fb |-> IF trip THEN "OpenCircuitException" ELSE err]

\* Variant of fail: the first entry is named after the exception.
failNamedAfterException(p, ev, t, exc) ==
    LET h == handle(p, ev, t, exc, severity(exc))
    IN  [events |-> h.events,
         logged |-> <<exc>> \o h.logged,
         trip |-> h.trip,
         raised |-> h.fb]

\* Handler._fail(exc, start): logs FAIL, delegates to ErrorHandler.handle and
\* raises what it gives back.
fail(p, ev, t, exc) ==
    LET h == handle(p, ev, t, exc, severity(exc))
    IN  [events |-> h.events,
         logged |-> <<"FAIL">> \o h.logged,
         trip |-> h.trip,
         raised |-> h.fb]

\* ---------------------------------------------------- CircuitBreakerManager

Top(s) == s[Len(s)]
Pop(s) == SubSeq(s, 1, Len(s) - 1)

\* The keys the callers of the model pass.
CallKeys == {"k1"}

\* execute, line 259: the cooldown gate.
CooldownActive(st, le, t, cd) == st = "OPEN" /\ t - le < cd

\* Variants of Admission: the risk check ahead of the cooldown gate; no risk
\* check at admission.
AdmissionRiskFirst(st, le, t, cd, exceeds) ==
    IF exceeds THEN "OPEN"
    ELSE IF CooldownActive(st, le, t, cd) THEN "BLOCK"
    ELSE "RUN"

AdmissionNoRiskCheck(st, le, t, cd, exceeds) ==
    IF CooldownActive(st, le, t, cd) THEN "BLOCK" ELSE "RUN"

\* Variant of Admission: once the cooldown is over, a call in state OPEN is
\* run as the probe whatever the risk.
AdmissionProbesAfterCooldown(st, le, t, cd, exceeds) ==
    IF CooldownActive(st, le, t, cd) THEN "BLOCK"
    ELSE IF st = "OPEN" THEN "RUN"
    ELSE IF exceeds THEN "OPEN"
    ELSE "RUN"

\* execute, lines 259-270: what admission decides.
Admission(st, le, t, cd, exceeds) ==
    IF CooldownActive(st, le, t, cd) THEN "BLOCK"
    ELSE IF exceeds THEN "OPEN"
    ELSE "RUN"

\* execute, lines 268-270: the state a call is run in.
RunState(st) == IF st = "OPEN" THEN "HALF_OPEN" ELSE st

\* execute, lines 277-279: the state after the operation has returned.
SuccessState(st) == IF st = "HALF_OPEN" THEN "CLOSED" ELSE st

\* Variant of Caught: execute catches every exception (except Exception).
CaughtAny(raised) == TRUE

\* execute, lines 274-275 over Handler._fail's raise: an OpenCircuitException
\* is answered by the mitigation, any other exception leaves execute.
Caught(raised) == raised = "OpenCircuitException"

\* Handler.run, lines 211-215: the operation is started on the caller's thread
\* (no time budget) or handed to the pool, where it starts if a worker is free.
Starts(budget, hung) == budget = 0 \/ hung < max_workers

\* A call waiting for the lock of line 255.
Waiting(key) ==
    [pc |-> "lock", key |-> key, now |-> 0, state0 |-> "CLOSED", started |-> FALSE]

\* The record of a finished call: its key, the way it took through execute,
\* what it gave its caller, and the breaker state and the time it was admitted at.
Finished(f, path, out) ==
    [key |-> f.key, path |-> path, out |-> out, state0 |-> f.state0, at |-> f.now]

\* execute, lines 255-273, for the call of thread t with this key, over the
\* calls `base` the thread is already in: with the lock taken, the risk is
\* evaluated and the call is blocked, rejected or handed to Handler.run.
Admitted(t, key, base) ==
    LET path == Admission(state, last_event, now, cooldown,
                          RiskExceeds(params, events, now))
        go == Starts(time_budget, pool_hung)
        f == [pc |-> "run", key |-> key, now |-> now, state0 |-> state, started |-> go]
        m == apply(cache, fallback, key)
    IN  CASE path = "BLOCK" ->
               /\ log' = Append(log, "BLOCK")
               /\ last' = Finished(f, "BLOCK", m.out)
               /\ stack' = [stack EXCEPT ![t] = base]
               /\ cache' = m.cache
               /\ fallback' = m.fallback
               /\ UNCHANGED <<state, last_event, lock_owner, lock_count, op_calls>>
          [] path = "OPEN" ->
               /\ state' = "OPEN"
               /\ last_event' = now
               /\ log' = Append(log, "OPEN")
               /\ last' = Finished(f, "OPEN", m.out)
               /\ stack' = [stack EXCEPT ![t] = base]
               /\ cache' = m.cache
               /\ fallback' = m.fallback
               /\ UNCHANGED <<lock_owner, lock_count, op_calls>>
          [] path = "RUN" ->
               /\ state' = RunState(state)
               /\ last_event' = IF state = "OPEN" THEN now ELSE last_event
               /\ log' = IF state = "OPEN" THEN Append(log, "HALF_OPEN") ELSE log
               /\ stack' = [stack EXCEPT ![t] = Append(base, f)]
               /\ op_calls' = IF go THEN op_calls + 1 ELSE op_calls
               /\ lock_owner' = t
               /\ lock_count' = lock_count + 1
               /\ UNCHANGED <<cache, fallback, last>>

\* A thread calls execute(func, key).  It goes through admission at once when
\* the lock is free, and waits at line 255 when another thread holds it.
\* Idle threads are alike, so the one with the lowest number makes the call.
Call(t, key) ==
    /\ stack[t] = <<>>
    /\ \A u \in Threads : u < t => stack[u] /= <<>>
    /\ n_exec < MaxCalls
    /\ n_exec' = n_exec + 1
    /\ IF lock_owner = NoThread
       THEN Admitted(t, key, <<>>)
       ELSE /\ stack' = [stack EXCEPT ![t] = <<Waiting(key)>>]
            /\ UNCHANGED <<fallback, cache, state, last_event, lock_owner, lock_count,
                           log, op_calls, last>>
    /\ UNCHANGED <<logvars, sidevars, memory_budget, params, cooldown, time_budget, events, now, pool_hung,
                   futures_timeout_is_builtin>>

\* The operation of the innermost call, running on the caller's own thread
\* (no time budget), calls execute on the same manager: the lock is re-entrant.
Reenter(t, key) ==
    /\ stack[t] /= <<>>
    /\ Top(stack[t]).pc = "run"
    /\ lock_owner = t
    /\ time_budget = 0
    /\ Len(stack[t]) < MaxDepth
    /\ n_exec < MaxCalls
    /\ n_exec' = n_exec + 1
    /\ Admitted(t, key, stack[t])
    /\ UNCHANGED <<logvars, sidevars, memory_budget, params, cooldown, time_budget, events, now, pool_hung,
                   futures_timeout_is_builtin>>

\* A waiting thread gets the lock.
Acquire(t) ==
    /\ stack[t] /= <<>>
    /\ Top(stack[t]).pc = "lock"
    /\ lock_owner = NoThread
    /\ Admitted(t, Top(stack[t]).key, Pop(stack[t]))
    /\ UNCHANGED <<logvars, sidevars, memory_budget, params, cooldown, time_budget, events, now, n_exec, pool_hung,
                   futures_timeout_is_builtin>>

\* The lock of line 255 is released when the with block is left.
Release(t) ==
    /\ lock_count' = lock_count - 1
    /\ lock_owner' = IF lock_count = 1 THEN NoThread ELSE t

\* execute, lines 273-275 after Handler.run has caught exc (lines 216-219).
Failed(t, exc) ==
    LET f == Top(stack[t])
        r == fail(params, events, now, exc)
        m == apply(cache, fallback, f.key)
    IN  /\ events' = r.events
        /\ log' = log \o r.logged
        /\ IF Caught(r.raised)
           THEN /\ last' = Finished(f, IF r.trip THEN "TRIP" ELSE "CAUGHT", m.out)
                /\ cache' = m.cache
                /\ fallback' = m.fallback
           ELSE /\ last' = Finished(f, "RERAISE", Raise(r.raised))
                /\ UNCHANGED <<cache, fallback>>
        /\ stack' = [stack EXCEPT ![t] = Pop(@)]
        /\ Release(t)
        /\ UNCHANGED <<state, last_event>>

\* execute, lines 276-281: the operation has returned.
Succeeded(t) ==
    LET f == Top(stack[t])
    IN  /\ state' = SuccessState(state)
        /\ log' = IF state = "HALF_OPEN" THEN Append(log, "CLOSED") ELSE log
        /\ events' = record_success(events, now, now - f.now)
        /\ last' = Finished(f, "SUCCESS", Return(OpResult))
        /\ stack' = [stack EXCEPT ![t] = Pop(@)]
        /\ Release(t)
        /\ UNCHANGED <<last_event, cache, fallback>>

\* What the wrapped operation may do when it ends: return, raise an ordinary
\* exception, or raise an OpenCircuitException of its own.
Outcomes == {"ok", "Exception", "OpenCircuitException"}

\* The operation of the innermost call ends, within the time budget if there
\* is one (Handler.run, lines 211-222), and execute finishes (lines 273-281).
Complete(t, outcome) ==
    /\ stack[t] /= <<>>
    /\ Top(stack[t]).pc = "run"
    /\ Top(stack[t]).started
    /\ time_budget > 0 => now - Top(stack[t]).now <= time_budget
    /\ IF outcome = "ok" THEN Succeeded(t) ELSE Failed(t, outcome)
    /\ UNCHANGED <<logvars, sidevars, memory_budget, params, cooldown, time_budget, now, op_calls, n_exec, pool_hung,
                   futures_timeout_is_builtin>>

\* The operation of the innermost call returns, having allocated more than
\* memory_budget at its peak.  Handler.run starts and stops tracemalloc around
\* the call (lines 208-209, 220-221) and never reads what it traced, so the
\* step is that of any operation that returns.
OverBudget(t) ==
    /\ memory_budget > 0
    /\ Complete(t, "ok")

\* The operation of the innermost call turns out never to return.
Hang(t) ==
    /\ stack[t] /= <<>>
    /\ Top(stack[t]).pc = "run"
    /\ Top(stack[t]).started
    /\ stack' = [stack EXCEPT ![t] = Append(Pop(@), [Top(@) EXCEPT !.pc = "hung"])]
    /\ UNCHANGED <<logvars, sidevars, memory_budget, params, cooldown, time_budget, fallback, cache, state, last_event,
                   lock_owner, lock_count, events, log, now, op_calls, n_exec,
                   pool_hung, futures_timeout_is_builtin, last>>

\* Handler.run, line 213: fut.result(timeout = time_budget) gives up.  The
\* operation is not cancelled: one that never returns keeps its worker.
Timeout(t) ==
    /\ stack[t] /= <<>>
    /\ time_budget > 0
    /\ Top(stack[t]).pc \in {"run", "hung"}
    /\ now - Top(stack[t]).now >= time_budget
    /\ Failed(t, IF futures_timeout_is_builtin THEN "TimeoutError"
                 ELSE "FuturesTimeoutError")
    /\ pool_hung' = IF Top(stack[t]).pc = "hung" THEN pool_hung + 1 ELSE pool_hung
    /\ UNCHANGED <<logvars, sidevars, memory_budget, params, cooldown, time_budget, now, op_calls, n_exec,
                   futures_timeout_is_builtin>>

Epoch == 10 * 3600

\* A caller waiting on a Future whose time budget has run out.
TimeoutDue ==
    \E t \in Threads :
        /\ stack[t] /= <<>>
        /\ Top(stack[t]).pc \in {"run", "hung"}
        /\ time_budget > 0
        /\ now - Top(stack[t]).now >= time_budget

\* Time passes; a due timeout fires before it passes further.
Tick ==
    /\ now + TickSeconds <= Epoch + MaxTicks * TickSeconds
    /\ ~TimeoutDue
    /\ now' = now + TickSeconds
    /\ UNCHANGED <<logvars, sidevars, memory_budget, params, cooldown, time_budget, fallback, cache, state, last_event,
                   lock_owner, lock_count, events, log, stack, op_calls, n_exec,
                   pool_hung, futures_timeout_is_builtin, last>>

\* ------------------------------------- FeedbackCheckpointer: checkpoints

\* Operation ids and payloads callers save checkpoints under.
OpIds == {"op1", "op2"}
Payloads == {"p1", "p2"}

\* FeedbackCheckpointer.__init__, line 81: the empty dict.
NoCheckpoints == [k \in {} |-> "p1"]

\* Variant of save_checkpoint: the store keeps the saved id alone.
save_checkpointAlone(cps, op_id, data) == [k \in {op_id} |-> data]

\* save_checkpoint(op_id, data), line 113: self._checkpoints[op_id] = data
save_checkpoint(cps, op_id, data) ==
    [k \in DOMAIN cps \cup {op_id} |-> IF k = op_id THEN data ELSE cps[k]]

\* get_checkpoint(op_id), line 116: dict.get, None for an id never saved.
get_checkpoint(cps, op_id) == IF op_id \in DOMAIN cps THEN cps[op_id] ELSE None

CheckpointerInit == checkpoints = NoCheckpoints

\* ------------------------------------------ src/breaker.py: CircuitBreaker

\* CircuitBreakerConfig (src/config.py, lines 100-106).
CircuitBreakerConfig(k, timeout, exc) ==
    [failure_threshold |-> k, recovery_timeout |-> timeout, expected_exception |-> exc]

\* isinstance(exc, cls) over the exception classes of the model: Exception is
\* the base of them all.
IsInstance(exc, cls) == cls = "Exception" \/ cls = exc

\* CircuitBreaker.__init__, lines 30-36, at time t.
NewBreaker(config, t) ==
    [config |-> config, state |-> "CLOSED", failure_count |-> 0,
     last_failure_time |-> 0, last_success_time |-> t]

\* CircuitBreaker._on_success, lines 105-112, at time t.
on_success(b, t) ==
    [b EXCEPT !.failure_count = 0,
              !.last_success_time = t,
              !.state = IF b.state = "HALF_OPEN" THEN "CLOSED" ELSE b.state]

\* CircuitBreaker._on_failure, lines 114-122, at time t.
on_failure(b, t) ==
    [b EXCEPT !.failure_count = b.failure_count + 1,
              !.last_failure_time = t,
              !.state = IF b.failure_count + 1 >= b.config.failure_threshold
                        THEN "OPEN" ELSE b.state]

\* call, line 57: the recovery timeout has elapsed since the last failure.
RecoveryElapsed(b, t) == t - b.last_failure_time >= b.config.recovery_timeout

\* A thread's call of the breaker: where it is (idle, at the test of line 57
\* having read state OPEN at line 56, or inside the try block), which method
\* it called, whether it took the breaker from OPEN to HALF_OPEN, whether the
\* wrapped function was invoked, what the call gave its caller, and how many
\* calls the thread has made.
NoBreakerCall ==
    [pc |-> "idle", method |-> "call", trial |-> FALSE, invoked |-> FALSE,
     out |-> Return(None), n |-> 0]

CircuitBreakerInit(config) ==
    /\ breaker = NewBreaker(config, Epoch)
    /\ calls = [t \in Threads |-> NoBreakerCall]

\* ------------------------------------- src/retry.py: retry_on_exception

\* RetryConfig and ResilienceConfig (src/config.py, lines 63-71 and 10-21) by
\* the fields the wrapper reads.  ResilienceConfig has no field `exceptions`.
RetryConfig(n, exc) == [max_attempts |-> n, exceptions |-> exc]
ResilienceConfig(n) == [max_retries |-> n]

\* An exception object: its class, and the invocation that raised it.
Exc(type, at) == [type |-> type, at |-> at]
NoException == Exc(None, 0)

\* wrapper, line 34: getattr(config, 'max_attempts', getattr(config, 'max_retries', 3))
max_attempts(config) ==
    IF "max_attempts" \in DOMAIN config THEN config.max_attempts
    ELSE IF "max_retries" \in DOMAIN config THEN config.max_retries
    ELSE 3

\* A wrapper: the config of its decorator, the locals of the call in progress
\* (attempts, last_exception), how often the call has invoked the function,
\* what the last finished call gave its caller, and the calls made so far.
NewWrapper(config) ==
    [config |-> config, pc |-> "idle", attempts |-> 0, last_exception |-> NoException,
     invocations |-> 0, out |-> Return(None), n |-> 0]

\* wrapper, lines 36-38 and 66: the test of the while loop; the function is
\* invoked, or the loop is left and last_exception is raised (a TypeError when
\* it is still None: exceptions must derive from BaseException).
Loop(r) ==
    IF r.attempts < max_attempts(r.config)
    THEN [r EXCEPT !.pc = "func", !.invocations = r.invocations + 1]
    ELSE [r EXCEPT !.pc = "idle",
                   !.out = IF r.last_exception = NoException
                           THEN Raise(Exc("TypeError", 0))
                           ELSE Raise(r.last_exception)]

WrapperInit(config) == retry = NewWrapper(config)

\* The three of them as the specifications of the manager leave them.
SideInit ==
    /\ CheckpointerInit
    /\ CircuitBreakerInit(CircuitBreakerConfig(2, 40, "Exception"))
    /\ WrapperInit(RetryConfig(3, "Exception"))

\* ------------------------------------------------------------ construction

\* theta0 = -1.0, threshold = 1.0 and theta_fail = 120.0 or 60.0: the score
\* passes the threshold with the first, or with the second, failure inside
\* the failure-rate window.  Each comes with a cooldown in seconds.
TripsOnFirst == RiskParams(0 - 10, 1200, 0, 0, 0, 10)
TripsOnSecond == RiskParams(0 - 10, 600, 0, 0, 0, 10)
PolicyChoices == {<<TripsOnFirst, 40>>, <<TripsOnFirst, 120>>, <<TripsOnSecond, 40>>}

\* No time budget (the default: the operation runs on the caller's thread),
\* or a budget in seconds.
BudgetChoices == {0, 40}

\* set_budgets sets both budgets: with the time budget comes a memory budget
\* of 10 * 1024 * 1024 bytes (10 MB).
MemoryBudget == 10485760

\* The Mitigation a manager is built with: a cache entry for the key and a
\* fallback, a fallback alone, or neither.
NoCache == [k \in {} |-> "v1"]
MitigationChoices ==
    {[cache |-> [k \in {"k1"} |-> "v1"], fallback |-> "v2"],
     [cache |-> NoCache, fallback |-> "v2"],
     [cache |-> NoCache, fallback |-> None]}

NoCall ==
    [key |-> None, path |-> "none", out |-> Return(None), state0 |-> "CLOSED", at |-> 0]

\* The state after CircuitBreakerManager.__init__ (lines 245-252), over the
\* configurations above.  The pool is shared by every manager of the process:
\* its workers are all free, or all held by operations other managers abandoned.
Init ==
    /\ \E pc \in PolicyChoices : params = pc[1] /\ cooldown = pc[2]
    /\ time_budget \in BudgetChoices
    /\ memory_budget = (IF time_budget = 0 THEN 0 ELSE MemoryBudget)
    /\ LoggerInit
    /\ SideInit
    /\ \E m \in MitigationChoices : cache = m.cache /\ fallback = m.fallback
    /\ futures_timeout_is_builtin \in IF time_budget = 0 THEN {TRUE} ELSE BOOLEAN
    /\ pool_hung \in IF time_budget = 0 THEN {0} ELSE {0, max_workers}
    /\ state = "CLOSED"
    /\ now = Epoch
    /\ last_event = now
    /\ lock_owner = NoThread
    /\ lock_count = 0
    /\ events = <<>>
    /\ log = <<>>
    /\ stack = [t \in Threads |-> <<>>]
    /\ op_calls = 0
    /\ n_exec = 0
    /\ last = NoCall

Next ==
    \/ \E t \in Threads, key \in CallKeys : Call(t, key)
    \/ \E t \in Threads, key \in CallKeys : Reenter(t, key)
    \/ \E t \in Threads : Acquire(t)
    \/ \E t \in Threads, outcome \in Outcomes : Complete(t, outcome)
    \/ \E t \in Threads : OverBudget(t)
    \/ \E t \in Threads : Hang(t)
    \/ \E t \in Threads : Timeout(t)
    \/ Tick

Spec == Init /\ [][Next]_vars

\* A manager built with the defaults of __init__ for the handler (line 246:
\* time_budget None, so Handler.run calls the operation on the caller's
\* thread), under a scheduler that keeps time moving, lets a thread waiting
\* for a free lock take it, and lets an operation that is going to return do
\* so.  No Future is waited on, so no wait ever times out.
FairInit ==
    /\ Init
    /\ time_budget = 0

FairNext ==
    \/ \E t \in Threads, key \in CallKeys : Call(t, key)
    \/ \E t \in Threads, key \in CallKeys : Reenter(t, key)
    \/ \E t \in Threads : Acquire(t)
    \/ \E t \in Threads, outcome \in Outcomes : Complete(t, outcome)
    \/ \E t \in Threads : Hang(t)
    \/ Tick

FairSpec ==
    /\ FairInit
    /\ [][FairNext]_vars
    /\ WF_vars(Tick)
    /\ \A t \in Threads : WF_vars(Acquire(t))
    /\ \A t \in Threads : WF_vars(\E outcome \in Outcomes : Complete(t, outcome))

\* ------------------------------------------------------- Mitigation alone

\* The caches a Mitigation can be built over: any dict from keys to values,
\* None among the keys.
Caches == UNION {[D -> Vals] : D \in SUBSET Keys}

\* Mitigation.__init__ over every fallback and cache; the rest of the state
\* is that of a fresh manager and stays untouched.
MitInit ==
    /\ cache \in Caches
    /\ fallback \in Vals \cup {None}
    /\ params = TripsOnFirst
    /\ cooldown = 40
    /\ time_budget = 0
    /\ memory_budget = 0
    /\ LoggerInit
    /\ SideInit
    /\ futures_timeout_is_builtin = TRUE
    /\ pool_hung = 0
    /\ state = "CLOSED"
    /\ now = Epoch
    /\ last_event = now
    /\ lock_owner = NoThread
    /\ lock_count = 0
    /\ events = <<>>
    /\ log = <<>>
    /\ stack = [t \in Threads |-> <<>>]
    /\ op_calls = 0
    /\ n_exec = 0
    /\ last = NoCall

\* A direct call of Mitigation.apply(key).
MitApply(key) ==
    /\ last' = [key |-> key, path |-> "apply", out |-> apply(cache, fallback, key).out,
                state0 |-> state, at |-> now]
    /\ cache' = apply(cache, fallback, key).cache
    /\ fallback' = apply(cache, fallback, key).fallback
    /\ UNCHANGED <<logvars, sidevars, memory_budget, params, cooldown, time_budget, state, last_event, lock_owner,
                   lock_count, events, log, now, stack, op_calls, n_exec, pool_hung,
                   futures_timeout_is_builtin>>

MitNext == \E key \in Keys : MitApply(key)

MitSpec == MitInit /\ [][MitNext]_vars

\* The operation of the innermost call raises the builtin TimeoutError itself
\* (a socket or lock timeout of its own), before any time budget has run out.
RaisesTimeoutError(t) ==
    /\ stack[t] /= <<>>
    /\ Top(stack[t]).pc = "run"
    /\ Top(stack[t]).started
    /\ time_budget > 0 => now - Top(stack[t]).now < time_budget
    /\ Failed(t, "TimeoutError")
    /\ UNCHANGED <<logvars, sidevars, memory_budget, params, cooldown, time_budget, now, op_calls,
                   n_exec, pool_hung, futures_timeout_is_builtin>>

\* One manager that trips on the second failure, with operations that may
\* also raise TimeoutError themselves.
SeverityInit ==
    /\ Init
    /\ params = TripsOnSecond
    /\ fallback = "v2"
    /\ cache = NoCache
    /\ pool_hung = 0

SeverityNext ==
    \/ Next
    \/ \E t \in Threads : RaisesTimeoutError(t)

SeveritySpec == SeverityInit /\ [][SeverityNext]_vars

\* ------------------------------------------------ calls that keep arriving

\* What CircuitBreakerManager.__init__ (lines 250-252) and the constructors of
\* its parts set whatever the configuration is.
Fresh ==
    /\ state = "CLOSED"
    /\ now = Epoch
    /\ last_event = now
    /\ lock_owner = NoThread
    /\ lock_count = 0
    /\ events = <<>>
    /\ log = <<>>
    /\ stack = [t \in Threads |-> <<>>]
    /\ op_calls = 0
    /\ n_exec = 0
    /\ last = NoCall
    /\ LoggerInit
    /\ SideInit

\* The risk parameters of the API breaker of src/integrate_circuit_breaker.py
\* (lines 118-125): theta0 = -0.5, theta_fail = 1.0, theta_season = 0.5,
\* theta_vol = 0.5, theta_sev = 1.0, threshold = 1.0.
ApiParams == RiskParams(0 - 5, 10, 5, 5, 10, 10)

\* A manager with a default fallback and no time budget, with the parameters
\* that trip on the first failure or with those of the API breaker; the
\* cooldown is 40 s.
LiveInit ==
    /\ Fresh
    /\ params \in {TripsOnFirst, ApiParams}
    /\ cooldown = 40
    /\ time_budget = 0
    /\ memory_budget = 0
    /\ cache = NoCache
    /\ fallback = "v2"
    /\ futures_timeout_is_builtin = TRUE
    /\ pool_hung = 0

\* An operation fails in the first instant of the manager's life; from then
\* on every operation that is run succeeds.
FailsEarly(t) ==
    /\ now = Epoch
    /\ Complete(t, "Exception")

\* An operation succeeds, taking no measurable time.
Returns(t) ==
    /\ stack[t] /= <<>>
    /\ now = Top(stack[t]).now
    /\ Complete(t, "ok")

\* Time passes between calls.
LiveTick ==
    /\ \A t \in Threads : stack[t] = <<>>
    /\ Tick

\* The counters the model keeps of the calls made, and the audit entries
\* written so far, have no part in what execute does next: they start afresh,
\* so that calls can keep arriving.
Recycle ==
    /\ \A t \in Threads : stack[t] = <<>>
    /\ n_exec = MaxCalls
    /\ n_exec' = 0
    /\ op_calls' = 0
    /\ log' = <<>>
    /\ UNCHANGED <<logvars, sidevars, memory_budget, params, cooldown, time_budget, fallback,
                   cache, state, last_event, lock_owner, lock_count, events, now, stack,
                   pool_hung, futures_timeout_is_builtin, last>>

LiveNext ==
    \/ \E t \in Threads, key \in CallKeys : Call(t, key)
    \/ \E t \in Threads : Acquire(t)
    \/ \E t \in Threads : FailsEarly(t)
    \/ \E t \in Threads : Returns(t)
    \/ LiveTick
    \/ Recycle

\* Calls keep arriving, time keeps advancing, a thread waiting for the free
\* lock gets it, and the operations that are run return.
LiveSpec ==
    /\ LiveInit
    /\ [][LiveNext]_vars
    /\ WF_vars(\E t \in Threads, key \in CallKeys : Call(t, key))
    /\ WF_vars(Recycle)
    /\ SF_vars(LiveTick)
    /\ \A t \in Threads : WF_vars(Acquire(t))
    /\ \A t \in Threads : WF_vars(Returns(t))

\* ------------------------------------------------- the concrete scenario

\* theta0 = -1, theta_fail = 0.5, theta_season = 0, theta_vol = 0,
\* theta_sev = 0.8, threshold = 1.5.
ScenarioParams == RiskParams(0 - 10, 5, 0, 0, 8, 15)

\* A manager with these parameters, a default fallback and no time budget.
ScenarioInit ==
    /\ Fresh
    /\ params = ScenarioParams
    /\ cooldown = 40
    /\ time_budget = 0
    /\ memory_budget = 0
    /\ cache = NoCache
    /\ fallback = "v2"
    /\ futures_timeout_is_builtin = TRUE
    /\ pool_hung = 0

\* Calls made one after another or from two threads, whose operations
\* return or raise.
ScenarioNext ==
    \/ \E t \in Threads, key \in CallKeys : Call(t, key)
    \/ \E t \in Threads : Acquire(t)
    \/ \E t \in Threads, outcome \in Outcomes : Complete(t, outcome)
    \/ Tick

ScenarioSpec == ScenarioInit /\ [][ScenarioNext]_vars

\* ---------------------------------------- risk score and event buffer alone

\* Risk parameters whose only features are the failure rate and the last
\* severity: theta_fail = 60.0, theta_fail = -60.0, theta_fail = 60000.0, and
\* those of the concrete scenario.
NegativeFailWeight == RiskParams(0, 0 - 600, 0, 0, 0, 10)
HugeFailWeight == RiskParams(0, 600000, 0, 0, 0, 10)
RiskParamChoices == {TripsOnSecond, NegativeFailWeight, HugeFailWeight, ScenarioParams}

RiskInit ==
    /\ Fresh
    /\ params \in RiskParamChoices
    /\ cooldown = 40
    /\ time_budget = 0
    /\ memory_budget = 0
    /\ cache = NoCache
    /\ fallback = None
    /\ futures_timeout_is_builtin = TRUE
    /\ pool_hung = 0

\* cp.record_failure(sev)
CpRecordFailure(sev) ==
    /\ events' = record_failure(events, now, sev)
    /\ UNCHANGED <<logvars, sidevars, memory_budget, params, cooldown, time_budget, fallback,
                   cache, state, last_event, lock_owner, lock_count, log, now, stack,
                   op_calls, n_exec, pool_hung, futures_timeout_is_builtin, last>>

\* cp.record_success(duration)
CpRecordSuccess(dur) ==
    /\ events' = record_success(events, now, dur)
    /\ UNCHANGED <<logvars, sidevars, memory_budget, params, cooldown, time_budget, fallback,
                   cache, state, last_event, lock_owner, lock_count, log, now, stack,
                   op_calls, n_exec, pool_hung, futures_timeout_is_builtin, last>>

\* strategy.evaluate_risk(cp), its outcome kept in `last`.
EvaluateRisk ==
    /\ last' = [key |-> None, path |-> "risk", out |-> evaluate_risk(params, events, now),
                state0 |-> state, at |-> now]
    /\ UNCHANGED <<logvars, sidevars, memory_budget, params, cooldown, time_budget, fallback,
                   cache, state, last_event, lock_owner, lock_count, events, log, now,
                   stack, op_calls, n_exec, pool_hung, futures_timeout_is_builtin>>

RiskNext ==
    \/ \E sev \in {5, 10} : CpRecordFailure(sev)
    \/ \E dur \in {0, TickSeconds} : CpRecordSuccess(dur)
    \/ EvaluateRisk
    \/ Tick

RiskSpec == RiskInit /\ [][RiskNext]_vars

\* ----------------------------------------------------- SecureLogger alone

\* The breaker's own state, which the logger does not touch.
breakervars == <<params, cooldown, time_budget, memory_budget, fallback, cache, state,
                 last_event, lock_owner, lock_count, events, log, now, stack, op_calls,
                 n_exec, pool_hung, futures_timeout_is_builtin, last, sidevars>>

\* The state of a fresh manager with nothing configured.
Idle ==
    /\ params = TripsOnFirst
    /\ cooldown = 40
    /\ time_budget = 0
    /\ memory_budget = 0
    /\ cache = NoCache
    /\ fallback = None
    /\ futures_timeout_is_builtin = TRUE
    /\ pool_hung = 0
    /\ state = "CLOSED"
    /\ now = Epoch
    /\ last_event = now
    /\ lock_owner = NoThread
    /\ lock_count = 0
    /\ events = <<>>
    /\ log = <<>>
    /\ stack = [t \in Threads |-> <<>>]
    /\ op_calls = 0
    /\ n_exec = 0
    /\ last = NoCall

\* Event names and detail values handed to log_event: a short plain value,
\* values of exactly 1024 and of 1025 characters, a short value with a newline
\* and carriage returns, and one that is too long and has newlines.
LogEvents == {"ERROR", "TRIP"}
DetailChoices ==
    {<<Run("a", 5)>>,
     <<Run("a", SanitizeLimit)>>,
     <<Run("a", SanitizeLimit + 1)>>,
     <<Run("a", 3), Run("\n", 1), Run("\r", 2)>>,
     <<Run("a", SanitizeLimit - 4), Run("\n", 10)>>}

LogInit == Idle /\ LoggerInit /\ SideInit

\* log_event, line 65: a thread calls log_event and takes the logger's lock,
\* which it can do only while no other thread is inside.  `acquired` keeps, per
\* call and in the order of the lock, what the call was given and how it ended.
LogCall(t, event, value) ==
    /\ logging[t].pc = "idle"
    /\ logger_lock = NoThread
    /\ Len(acquired) < MaxAppends
    /\ logger_lock' = t
    /\ logging' = [logging EXCEPT ![t] =
                     [NoLog EXCEPT !.pc = "format", !.id = Len(acquired) + 1,
                                   !.event = event, !.value = value]]
    /\ acquired' = Append(acquired, [value |-> value, status |-> "pending",
                                     entry |-> NoLog.entry])
    /\ UNCHANGED <<sink, last_hash, breakervars>>

\* log_event, lines 66-70: the entry is formatted from the sanitized detail,
\* the digest is taken over the previous digest and the entry, and
\* _last_hash is set to it.
LogDigest(t) ==
    LET c == logging[t]
        entry == Entry(now, c.event, sanitize(c.value))
        digest == sha256(last_hash, entry)
    IN  /\ c.pc = "format"
        /\ last_hash' = digest
        /\ logging' = [logging EXCEPT ![t] =
                         [c EXCEPT !.pc = "write", !.entry = entry, !.digest = digest]]
        /\ UNCHANGED <<sink, logger_lock, acquired, breakervars>>

\* log_event, lines 71-72: the line is appended to the logfile, and the lock
\* is released on the way out.
LogWrite(t) ==
    LET c == logging[t]
    IN  /\ c.pc = "write"
        /\ sink' = Append(sink, Line(c.entry, c.digest))
        /\ acquired' = [acquired EXCEPT ![c.id].status = "done", ![c.id].entry = c.entry]
        /\ logging' = [logging EXCEPT ![t] = NoLog]
        /\ logger_lock' = NoThread
        /\ UNCHANGED <<last_hash, breakervars>>

\* log_event, lines 71-72: open or write raises (OSError); nothing is
\* appended, the exception leaves log_event and the lock is released.
LogWriteFails(t) ==
    LET c == logging[t]
    IN  /\ c.pc = "write"
        /\ acquired' = [acquired EXCEPT ![c.id].status = "failed"]
        /\ logging' = [logging EXCEPT ![t] = NoLog]
        /\ logger_lock' = NoThread
        /\ UNCHANGED <<sink, last_hash, breakervars>>

LogNext ==
    \/ \E t \in Threads, event \in LogEvents, value \in DetailChoices :
           LogCall(t, event, value)
    \/ \E t \in Threads : LogDigest(t)
    \/ \E t \in Threads : LogWrite(t)
    \/ \E t \in Threads : LogWriteFails(t)

LogSpec == LogInit /\ [][LogNext]_vars

\* --------------------------------------------- the checkpoint store alone

\* cp.save_checkpoint(op_id, data)
SaveCheckpoint(op_id, data) ==
    /\ checkpoints' = save_checkpoint(checkpoints, op_id, data)
    /\ UNCHANGED <<logvars, breaker, calls, retry, memory_budget, params, cooldown,
                   time_budget, fallback, cache, state, last_event, lock_owner,
                   lock_count, events, log, now, stack, op_calls, n_exec, pool_hung,
                   futures_timeout_is_builtin, last>>

\* cp.get_checkpoint(op_id), what it returns kept in `last`.
GetCheckpoint(op_id) ==
    /\ last' = [key |-> op_id, path |-> "get",
                out |-> Return(get_checkpoint(checkpoints, op_id)),
                state0 |-> state, at |-> now]
    /\ UNCHANGED <<logvars, sidevars, memory_budget, params, cooldown, time_budget,
                   fallback, cache, state, last_event, lock_owner, lock_count, events,
                   log, now, stack, op_calls, n_exec, pool_hung,
                   futures_timeout_is_builtin>>

\* A FeedbackCheckpointer used for its events and for its checkpoints.
CheckpointInit ==
    /\ RiskInit
    /\ params \in {TripsOnSecond, ScenarioParams}

CheckpointNext ==
    \/ \E op_id \in OpIds, data \in Payloads : SaveCheckpoint(op_id, data)
    \/ \E op_id \in OpIds : GetCheckpoint(op_id)
    \/ CpRecordFailure(10)
    \/ CpRecordSuccess(0)
    \/ Tick

CheckpointSpec == CheckpointInit /\ [][CheckpointNext]_vars

\* ------------------------------------------- the plain CircuitBreaker alone

MaxBreakerCalls == 3

\* failure_threshold 1 or 2, recovery_timeout 40 or 80 s, and the default
\* expected_exception or ValueError alone.
BreakerConfigs ==
    {CircuitBreakerConfig(1, 40, "Exception"),
     CircuitBreakerConfig(2, 40, "Exception"),
     CircuitBreakerConfig(2, 80, "ValueError")}

Methods == {"call", "call_async"}

\* The exceptions the wrapped function raises.
FuncErrors == {"ValueError", "KeyError"}

BreakerInit ==
    /\ Idle
    /\ LoggerInit
    /\ CheckpointerInit
    /\ WrapperInit(RetryConfig(3, "Exception"))
    /\ \E config \in BreakerConfigs : CircuitBreakerInit(config)

\* call_async, lines 94-103: asyncio is not imported in src/breaker.py, so
\* line 95 raises NameError before the function is invoked; the except clause
\* counts it as a failure if it is an expected exception, and it is raised.
TryAsync(b, t) ==
    [breaker |-> IF IsInstance("NameError", b.config.expected_exception)
                 THEN on_failure(b, t) ELSE b,
     out |-> Raise("NameError")]

\* The try block is entered by thread t with the breaker as b: call invokes
\* the function (line 64), call_async ends as above.
Entered(t, b, frame) ==
    IF frame.method = "call"
    THEN /\ breaker' = b
         /\ calls' = [calls EXCEPT ![t] = [frame EXCEPT !.pc = "run", !.invoked = TRUE]]
    ELSE /\ breaker' = TryAsync(b, now).breaker
         /\ calls' = [calls EXCEPT ![t] = [frame EXCEPT !.pc = "idle",
                                                       !.out = TryAsync(b, now).out]]

\* call / call_async, line 56 (87): a thread calls the breaker and reads its
\* state; OPEN takes it to the test of line 57, any other state into the try
\* block.
CbCall(t, method) ==
    LET frame == [NoBreakerCall EXCEPT !.method = method, !.n = calls[t].n + 1]
    IN  /\ calls[t].pc = "idle"
        /\ calls[t].n < MaxBreakerCalls
        /\ IF breaker.state = "OPEN"
           THEN /\ calls' = [calls EXCEPT ![t] = [frame EXCEPT !.pc = "gate"]]
                /\ UNCHANGED breaker
           ELSE Entered(t, breaker, frame)
        /\ UNCHANGED <<logvars, managervars, checkpoints, retry>>

\* call / call_async, lines 57-61 (88-92): after recovery_timeout the state is
\* set to HALF_OPEN and the try block is entered, before it RuntimeError is
\* raised.
CbGate(t) ==
    /\ calls[t].pc = "gate"
    /\ IF RecoveryElapsed(breaker, now)
       THEN Entered(t, [breaker EXCEPT !.state = "HALF_OPEN"],
                    [calls[t] EXCEPT !.trial = TRUE])
       ELSE /\ calls' = [calls EXCEPT ![t] = [@ EXCEPT !.pc = "idle",
                                                      !.out = Raise("RuntimeError")]]
            /\ UNCHANGED breaker
    /\ UNCHANGED <<logvars, managervars, checkpoints, retry>>

\* call, lines 64-66: the function returns.
CbReturn(t) ==
    /\ calls[t].pc = "run"
    /\ breaker' = on_success(breaker, now)
    /\ calls' = [calls EXCEPT ![t] = [@ EXCEPT !.pc = "idle", !.out = Return(OpResult)]]
    /\ UNCHANGED <<logvars, managervars, checkpoints, retry>>

\* call, lines 67-69: the function raises exc; an expected exception is
\* counted and raised again, any other leaves call as it is.
CbRaise(t, exc) ==
    /\ calls[t].pc = "run"
    /\ breaker' = IF IsInstance(exc, breaker.config.expected_exception)
                  THEN on_failure(breaker, now) ELSE breaker
    /\ calls' = [calls EXCEPT ![t] = [@ EXCEPT !.pc = "idle", !.out = Raise(exc)]]
    /\ UNCHANGED <<logvars, managervars, checkpoints, retry>>

\* Threads that use call alone.
CallNext ==
    \/ \E t \in Threads : CbCall(t, "call")
    \/ \E t \in Threads : CbGate(t)
    \/ \E t \in Threads : CbReturn(t)
    \/ \E t \in Threads, exc \in FuncErrors : CbRaise(t, exc)
    \/ Tick

CallSpec == BreakerInit /\ [][CallNext]_vars

\* Threads that use call and call_async.
BreakerNext ==
    \/ \E t \in Threads, method \in Methods : CbCall(t, method)
    \/ \E t \in Threads : CbGate(t)
    \/ \E t \in Threads : CbReturn(t)
    \/ \E t \in Threads, exc \in FuncErrors : CbRaise(t, exc)
    \/ Tick

BreakerSpec == BreakerInit /\ [][BreakerNext]_vars

\* ------------------------------------------------ the retry wrapper alone

MaxWrapperCalls == 2

\* The two kinds of config retry_on_exception takes (line 17):
\* RetryConfig(max_attempts, exceptions) and ResilienceConfig(max_retries).
RetryConfigs ==
    {RetryConfig(1, "Exception"),
     RetryConfig(2, "Exception"),
     RetryConfig(3, "ValueError"),
     ResilienceConfig(0),
     ResilienceConfig(2)}

RetryInit ==
    /\ Idle
    /\ LoggerInit
    /\ CheckpointerInit
    /\ CircuitBreakerInit(CircuitBreakerConfig(2, 40, "Exception"))
    /\ \E config \in RetryConfigs : WrapperInit(config)

\* wrapper, lines 29-36: the wrapped function is called.
RtCall ==
    /\ retry.pc = "idle"
    /\ retry.n < MaxWrapperCalls
    /\ retry' = Loop([retry EXCEPT !.attempts = 0, !.last_exception = NoException,
                                   !.invocations = 0, !.n = retry.n + 1])
    /\ UNCHANGED <<logvars, managervars, checkpoints, breaker, calls>>

\* wrapper, line 38: the function returns.
RtReturn ==
    /\ retry.pc = "func"
    /\ retry' = [retry EXCEPT !.pc = "idle", !.out = Return(OpResult)]
    /\ UNCHANGED <<logvars, managervars, checkpoints, breaker, calls>>

\* wrapper, lines 39-64: the function raises an exception of this class.  The
\* except clause evaluates config.exceptions, an AttributeError on a config
\* without that field; an exception that does not match leaves the wrapper;
\* one that matches is kept, attempts grows, and the wrapper sleeps.
RtRaise(type) ==
    LET exc == Exc(type, retry.invocations)
        counted == [retry EXCEPT !.last_exception = exc, !.attempts = retry.attempts + 1]
    IN  /\ retry.pc = "func"
        /\ retry' =
             IF "exceptions" \notin DOMAIN retry.config
             THEN [retry EXCEPT !.pc = "idle",
                                !.out = Raise(Exc("AttributeError", retry.invocations))]
             ELSE IF ~IsInstance(type, retry.config.exceptions)
             THEN [retry EXCEPT !.pc = "idle", !.out = Raise(exc)]
             ELSE IF counted.attempts > max_attempts(retry.config)
             THEN [counted EXCEPT !.pc = "idle", !.out = Raise(exc)]
             ELSE [counted EXCEPT !.pc = "sleep"]
        /\ UNCHANGED <<logvars, managervars, checkpoints, breaker, calls>>

\* wrapper, line 64 and back to line 36: time.sleep(delay) returns.
RtWake ==
    /\ retry.pc = "sleep"
    /\ retry' = Loop(retry)
    /\ UNCHANGED <<logvars, managervars, checkpoints, breaker, calls>>

RetryNext ==
    \/ RtCall
    \/ RtReturn
    \/ \E type \in FuncErrors : RtRaise(type)
    \/ RtWake

RetrySpec == RetryInit /\ [][RetryNext]_vars

\* ------------------------------------------------- ErrorHandler.handle alone

\* theta0 = -0.5, theta_fail = 1.0, theta_sev = 1.2, threshold = 1.0: a last
\* failure of severity 1.0 takes the score over the threshold, one of
\* severity 0.5 does not.
SeverityWeighted == RiskParams(0 - 5, 10, 0, 0, 12, 10)

HandleInit ==
    /\ Fresh
    /\ params \in {TripsOnFirst, TripsOnSecond, SeverityWeighted, ApiParams}
    /\ cooldown = 40
    /\ time_budget = 0
    /\ memory_budget = 0
    /\ cache = NoCache
    /\ fallback = None
    /\ futures_timeout_is_builtin = TRUE
    /\ pool_hung = 0

\* ErrorHandler(strategy, cp, logger).handle(err, sev), what it returns kept
\* in `last`.
Handle(err, sev) ==
    LET h == handle(params, events, now, err, sev)
    IN  /\ Len(log) < 2 * MaxCalls
        /\ events' = h.events
        /\ log' = log \o h.logged
        /\ last' = [key |-> None, path |-> "handle", out |-> Return(h.fb),
                    state0 |-> state, at |-> now]
        /\ UNCHANGED <<logvars, sidevars, memory_budget, params, cooldown, time_budget,
                       fallback, cache, state, last_event, lock_owner, lock_count, now,
                       stack, op_calls, n_exec, pool_hung, futures_timeout_is_builtin>>

HandleNext ==
    \/ \E err \in {"Exception", "TimeoutError"}, sev \in {5, 10} : Handle(err, sev)
    \/ CpRecordSuccess(0)
    \/ Tick

HandleSpec == HandleInit /\ [][HandleNext]_vars

\* ================================================================ claims

\* The step in which the call of thread t, made with this key, goes through
\* admission (execute, lines 255-273).
AdmitStep(t, key) ==
    \/ Call(t, key) /\ lock_owner = NoThread
    \/ Reenter(t, key)
    \/ Acquire(t) /\ Top(stack[t]).key = key

\* The calls thread t is in below the one that goes through admission.
Below(t) ==
    IF stack[t] /= <<>> /\ Top(stack[t]).pc = "lock" THEN Pop(stack[t]) ELSE stack[t]

\* The step in which the operation of thread t's innermost call ends with
\* exception e, or is given up on after the time budget.
FailStep(t, e) ==
    \/ e \in Outcomes \ {"ok"} /\ Complete(t, e)
    \/ e \in {"TimeoutError", "FuturesTimeoutError"} /\ Timeout(t)
       /\ futures_timeout_is_builtin = (e = "TimeoutError")

C2_CooldownGate ==
    [][\A t \in Threads, key \in CallKeys :
         (AdmitStep(t, key) /\ state = "OPEN" /\ now - last_event < cooldown)
         => /\ last'.out = apply(cache, fallback, key).out
            /\ stack'[t] = Below(t)
            /\ op_calls' = op_calls
            /\ state' = "OPEN"
            /\ last_event' = last_event]_vars

\* A call has just been blocked in the cooldown although the risk score is
\* not above the threshold.
C2_Witness ==
    /\ last.path = "BLOCK"
    /\ last.at = now
    /\ state = "OPEN"
    /\ now - last_event < cooldown
    /\ ~RiskExceeds(params, events, now)

\* C3 as stated: in CLOSED, with only failures recorded so far and the risk
\* score not yet above the threshold, a failing call leaves the breaker OPEN
\* if the risk score exceeds the threshold once its failure is recorded, and
\* CLOSED if it does not.
C3_TripOpens ==
    [][\A t \in Threads,
          e \in (Outcomes \ {"ok"}) \cup {"TimeoutError", "FuturesTimeoutError"} :
         (/\ FailStep(t, e)
          /\ Len(stack[t]) = 1
          /\ state = "CLOSED"
          /\ \A i \in DOMAIN events : events[i].typ = "FAILURE"
          /\ ~RiskExceeds(params, events, now))
         => state' = IF RiskExceeds(params, events', now) THEN "OPEN" ELSE "CLOSED"]_vars

\* C4 as stated: when the operation of the probe call (the call that took the
\* breaker from OPEN to HALF_OPEN) raises or times out, the breaker is OPEN
\* when execute returns and last_event is no older than that call.
C4_FailedProbeReopens ==
    [][\A t \in Threads,
          e \in (Outcomes \ {"ok"}) \cup {"TimeoutError", "FuturesTimeoutError"} :
         (/\ FailStep(t, e)
          /\ Len(stack[t]) = 1
          /\ Top(stack[t]).state0 = "OPEN"
          /\ state = "HALF_OPEN")
         => /\ state' = "OPEN"
            /\ last_event' >= Top(stack[t]).now]_vars

\* C5 as stated: a call made in OPEN after the cooldown, with the risk score
\* at or below the threshold, moves the breaker to HALF_OPEN, appends a
\* HALF_OPEN entry and runs the operation; when that operation returns, the
\* call returns its result, the breaker is CLOSED and the audit log ends with
\* a CLOSED entry.
C5_ProbeRecovers ==
    [][\A t \in Threads :
         /\ \A key \in CallKeys :
              (/\ AdmitStep(t, key)
               /\ state = "OPEN"
               /\ now - last_event >= cooldown
               /\ ~RiskExceeds(params, events, now))
              => /\ state' = "HALF_OPEN"
                 /\ log' = Append(log, "HALF_OPEN")
                 /\ Len(stack'[t]) = Len(Below(t)) + 1
                 /\ Top(stack'[t]).pc = "run"
         /\ (/\ Complete(t, "ok")
             /\ Top(stack[t]).state0 = "OPEN")
            => /\ last'.out = Return(OpResult)
               /\ state' = "CLOSED"
               /\ Len(log') > 0
               /\ log'[Len(log')] = "CLOSED"]_vars

\* C6 as stated: the probe is the only operation run in HALF_OPEN: a call that
\* goes through admission while the state is HALF_OPEN, from another thread,
\* later on the same thread or from inside the probe's operation, is
\* answered without its operation being started.
C6_SingleProbe ==
    [][\A t \in Threads, key \in CallKeys :
         (AdmitStep(t, key) /\ state = "HALF_OPEN")
         => /\ op_calls' = op_calls
            /\ stack'[t] = Below(t)]_vars

C8_LockFreeWhileRunning ==
    \A t \in Threads :
        (/\ stack[t] /= <<>>
         /\ Top(stack[t]).pc \in {"run", "hung"}
         /\ Top(stack[t]).started)
        => lock_owner = NoThread

\* C9 as stated: every execute call eventually returns; an operation that
\* never returns keeps neither its own caller nor a caller waiting for the
\* lock inside execute forever.
C9_EveryCallReturns ==
    \A t \in Threads : (stack[t] /= <<>>) ~> (stack[t] = <<>>)

\* C10, with the key None never looked up: apply(key) returns the cache
\* entry for a key other than None that the cache holds, also when a fallback
\* is set; otherwise the fallback when one is set; otherwise it raises the
\* no-fallback error; and it leaves the cache and the fallback as they were.
C10_LookupOrder ==
    [][\A key \in Keys :
         MitApply(key)
         => /\ last'.out = IF key /= None /\ key \in DOMAIN cache
                             THEN Return(cache[key])
                           ELSE IF fallback /= None THEN Return(fallback)
                           ELSE Raise("OpenCircuitException:No fallback available.")
            /\ cache' = cache
            /\ fallback' = fallback]_vars

\* apply was called with a key the cache holds while a different fallback was
\* set, and returned the cache entry.
C10_Witness ==
    /\ last.path = "apply"
    /\ last.key /= None
    /\ last.key \in DOMAIN cache
    /\ fallback /= None
    /\ cache[last.key] /= fallback
    /\ last.out = Return(cache[last.key])

\* C10 as stated: whenever the cache holds an entry for key, apply(key)
\* returns that entry.
C10_LookupOrderAsStated ==
    [][\A key \in Keys :
         MitApply(key)
         => /\ last'.out = IF key \in DOMAIN cache
                             THEN Return(cache[key])
                           ELSE IF fallback /= None THEN Return(fallback)
                           ELSE Raise("OpenCircuitException:No fallback available.")
            /\ cache' = cache
            /\ fallback' = fallback]_vars

\* C11 as stated: when the operation of a call admitted in CLOSED returns r,
\* the Mitigation cache maps the call's key to r from then on.
C11_CacheFilled ==
    [][\A t \in Threads :
         (/\ Complete(t, "ok")
          /\ Top(stack[t]).state0 = "CLOSED")
         => /\ Top(stack[t]).key \in DOMAIN cache'
            /\ cache'[Top(stack[t]).key] = OpResult]_vars

\* C16 as stated: with a memory budget set, a call whose operation allocated
\* more than the budget at its peak records a FAILURE of severity 1.0 and does
\* not return the operation's result.
C16_MemoryBudgetEnforced ==
    [][\A t \in Threads :
         OverBudget(t)
         => /\ events' /= <<>>
            /\ events'[Len(events')].typ = "FAILURE"
            /\ events'[Len(events')].sev = 10
            /\ last'.out /= Return(OpResult)]_vars

\* C12 as stated: the sink holds one line per completed log_event call, in
\* the order in which the calls took the logger's lock, and the hash of each
\* line is the digest of the previous line's hash (the empty string for the
\* first line) followed by the line's own entry.
C12_ChainIntact ==
    LET done == SelectSeq(acquired, LAMBDA a : a.status = "done")
    IN  /\ Len(sink) = Len(done)
        /\ \A i \in DOMAIN sink :
             /\ sink[i].entry = done[i].entry
             /\ sink[i].hash = sha256(IF i = 1 THEN EmptyHash ELSE sink[i - 1].hash,
                                      sink[i].entry)

\* No newline and no carriage return in a text.
NoBreaks(s) == \A i \in DOMAIN s : s[i].ch \notin {"\n", "\r"}

\* A text of at most 1024 characters, or 1024 characters and the suffix.
Bounded(s) ==
    \/ TextLen(s) <= SanitizeLimit
    \/ /\ s /= <<>>
       /\ s[Len(s)] = Run(TruncatedSuffix, 1)
       /\ TextLen(SubSeq(s, 1, Len(s) - 1)) = SanitizeLimit

\* C13: the detail of every line written has no newline and no carriage
\* return and is at most 1024 characters, or exactly 1024 characters followed
\* by "...[truncated]"; a value of at most 1024 characters without newline and
\* carriage return is written as it is; and the digest of the line is taken
\* over the entry that holds the sanitized detail.
C13_Sanitized ==
    [][\A t \in Threads :
         LogWrite(t)
         => LET line == sink'[Len(sink')]
                value == logging[t].value
            IN  /\ NoBreaks(line.entry.safe)
                /\ Bounded(line.entry.safe)
                /\ (NoBreaks(value) /\ TextLen(value) <= SanitizeLimit)
                   => line.entry.safe = value
                /\ line.hash /= <<>>
                /\ line.hash[Len(line.hash)] = line.entry]_vars

\* A line has been written for a value that had newlines and was too long.
C13_Witness ==
    \E i \in DOMAIN acquired :
        /\ acquired[i].status = "done"
        /\ ~NoBreaks(acquired[i].value)
        /\ TextLen(acquired[i].value) > SanitizeLimit
        /\ acquired[i].entry.safe /= acquired[i].value
        /\ \E j \in DOMAIN sink : sink[j].entry = acquired[i].entry

\* C14 as stated: every entry of the audit log is named ERROR, TRIP, BLOCK,
\* OPEN, HALF_OPEN or CLOSED.
C14_SixEventNames ==
    \A i \in DOMAIN log :
        log[i] \in {"ERROR", "TRIP", "BLOCK", "OPEN", "HALF_OPEN", "CLOSED"}

\* C14, with the entry of Handler._fail: every entry of the audit log is
\* named FAIL, ERROR, TRIP, BLOCK, OPEN, HALF_OPEN or CLOSED, and every ERROR
\* entry comes right after a FAIL entry.
C14_EventNames ==
    \A i \in DOMAIN log :
        /\ log[i] \in {"FAIL", "ERROR", "TRIP", "BLOCK", "OPEN", "HALF_OPEN", "CLOSED"}
        /\ log[i] = "ERROR" => (i > 1 /\ log[i - 1] = "FAIL")

\* The audit log holds each of the seven names.
C14_Witness ==
    \A n \in {"FAIL", "ERROR", "TRIP", "BLOCK", "OPEN", "HALF_OPEN", "CLOSED"} :
        \E i \in DOMAIN log : log[i] = n

\* C15 as stated: the FAILURE event recorded for a failed call has severity
\* 0.5 when the call was given up on because the time budget ran out, and
\* severity 1.0 when the operation raised an exception, whichever it is.
C15_SeverityByCause ==
    [][\A t \in Threads :
         LET newest == events'[Len(events')]
         IN  /\ Timeout(t)
                => (events' /= <<>> /\ newest.typ = "FAILURE" /\ newest.sev = 5)
             /\ ((\E e \in Outcomes \ {"ok"} : Complete(t, e)) \/ RaisesTimeoutError(t))
                => (events' /= <<>> /\ newest.typ = "FAILURE" /\ newest.sev = 10)]_vars

\* C17 as stated: OPEN is never permanent: whenever the breaker is OPEN it is
\* CLOSED again later, given that calls keep arriving, time keeps advancing
\* and the operations that are run succeed.
C17_OpenNotPermanent == (state = "OPEN") ~> (state = "CLOSED")

\* Three failures of severity 1.0 inside the failure-rate window.
ThreeRecentFailures(ev, t) ==
    Cardinality({i \in DOMAIN ev : /\ ev[i].typ = "FAILURE"
                                   /\ ev[i].sev = 10
                                   /\ ev[i].t >= t - FailureWindow}) = 3

\* C18 as stated: with the parameters of the scenario, the failing call that
\* records the third failure of severity 1.0 inside the window leaves the
\* risk score above the threshold and returns the outcome of Mitigation.apply,
\* and a call made while the three failures are inside the window does not
\* run its operation.
C18_ThirdFailureTrips ==
    [][\A t \in Threads :
         /\ (/\ FailStep(t, "Exception")
             /\ ThreeRecentFailures(events', now))
            => /\ RiskExceeds(params, events', now)
               /\ last'.out = apply(cache, fallback, Top(stack[t]).key).out
         /\ \A key \in CallKeys :
              (AdmitStep(t, key) /\ ThreeRecentFailures(events, now))
              => op_calls' = op_calls]_vars

\* One outcome of evaluate_risk is a score at least as high as another.
RiskGeq(a, b) == a.kind = "return" /\ b.kind = "return" /\ a.val >= b.val

\* C19 as stated, for the parameters it can hold for (a failure weight that is
\* not negative): when the history changes so that the recent failure rate is
\* higher and the time-of-day factor, the volatility and the last failure
\* severity are what they were, evaluate_risk gives a score that is at least
\* the score it gave before.
C19_Monotone ==
    [][(/\ params.theta_fail >= 0
        /\ recent_failure_rate(events', now') > recent_failure_rate(events, now)
        /\ seasonal_factor(now') = seasonal_factor(now)
        /\ volatility(events', now') = volatility(events, now)
        /\ last_error_severity(events') = last_error_severity(events))
       => RiskGeq(evaluate_risk(params, events', now'),
                  evaluate_risk(params, events, now))]_vars

\* C20: the event buffer never holds more than max_events events; a step in
\* which an operation ends (record_success or record_failure is called) puts
\* the new event at the end, and when the buffer was full it drops the oldest
\* event and keeps the others in their order; no other step changes the buffer.
C20_BoundedFifo ==
    [][/\ Len(events') <= MaxEvents
       /\ IF \E t \in Threads : (\E o \in Outcomes : Complete(t, o)) \/ Timeout(t)
          THEN /\ events' /= <<>>
               /\ events'[Len(events')].t = now
               /\ SubSeq(events', 1, Len(events') - 1)
                    = IF Len(events) < MaxEvents THEN events ELSE Tail(events)
          ELSE events' = events]_vars

\* More operations have ended than the buffer holds events, and the buffer is
\* full: its oldest events have been evicted.
C20_Witness ==
    /\ time_budget = 0
    /\ \A t \in Threads : stack[t] = <<>>
    /\ op_calls > MaxEvents
    /\ Len(events) = MaxEvents

\* C21: a save puts the payload under its id, so that the id reads as that
\* payload, and leaves every other id as it was; a read gives the payload the
\* id holds, or None for an id never saved, and changes nothing in the store;
\* no other step changes the store, so that what an id holds is the payload of
\* its most recent save; and neither a save nor a read changes the event
\* buffer or the risk score.
C21_CheckpointStore ==
    [][/\ \A op_id \in OpIds, data \in Payloads :
            SaveCheckpoint(op_id, data)
            => /\ op_id \in DOMAIN checkpoints'
               /\ checkpoints'[op_id] = data
               /\ \A other \in OpIds \ {op_id} :
                    /\ other \in DOMAIN checkpoints' <=> other \in DOMAIN checkpoints
                    /\ other \in DOMAIN checkpoints => checkpoints'[other] = checkpoints[other]
               /\ events' = events
               /\ evaluate_risk(params', events', now') = evaluate_risk(params, events, now)
       /\ \A op_id \in OpIds :
            GetCheckpoint(op_id)
            => /\ last'.out = IF op_id \in DOMAIN checkpoints
                              THEN Return(checkpoints[op_id]) ELSE Return(None)
               /\ checkpoints' = checkpoints
               /\ events' = events
               /\ evaluate_risk(params', events', now') = evaluate_risk(params, events, now)
       /\ (~ \E op_id \in OpIds :
               GetCheckpoint(op_id) \/ \E data \in Payloads : SaveCheckpoint(op_id, data))
          => checkpoints' = checkpoints]_vars

\* Both ids hold a payload with events in the buffer, and a read has just
\* given the payload of one of them.
C21_Witness ==
    /\ DOMAIN checkpoints = OpIds
    /\ checkpoints["op1"] /= checkpoints["op2"]
    /\ events /= <<>>
    /\ last.path = "get"
    /\ last.key = "op2"
    /\ last.out = Return(checkpoints["op2"])

\* The step in which the operation of thread t's innermost call ends, in any
\* of the ways it can.
EndStep(t) == (\E o \in Outcomes : Complete(t, o)) \/ Timeout(t)

\* C22: a call admitted in state CLOSED whose operation returns appends no
\* audit entry; and a step appends audit entries only if it is a call being
\* rejected at admission, changes the breaker state, or is the end of an
\* operation that failed.
C22_QuietSuccess ==
    [][\A t \in Threads :
         /\ (Complete(t, "ok") /\ Top(stack[t]).state0 = "CLOSED") => log' = log
         /\ log' /= log
            => \/ \E u \in Threads, key \in CallKeys :
                    AdmitStep(u, key) /\ stack'[u] = Below(u)
               \/ state' /= state
               \/ \E u \in Threads : EndStep(u) /\ ~Complete(u, "ok")]_vars

\* C23: with failure_threshold = k, a call whose function raises gives its
\* caller that exception, and when the exception is an expected one the
\* failure count grows by one and the breaker opens exactly if the count has
\* reached k; a call whose function returns sets the count to 0; the state is
\* CLOSED only with a count below k, and it leaves CLOSED only in the failing
\* call in which the count reaches k, for OPEN.
C23_OpensAtThreshold ==
    [][\A t \in Threads :
         LET k == breaker.config.failure_threshold
         IN  /\ \A exc \in FuncErrors :
                  CbRaise(t, exc)
                  => /\ calls'[t].out = Raise(exc)
                     /\ IsInstance(exc, breaker.config.expected_exception)
                        => /\ breaker'.failure_count = breaker.failure_count + 1
                           /\ breaker'.state = IF breaker'.failure_count >= k
                                               THEN "OPEN" ELSE breaker.state
             /\ CbReturn(t)
                => /\ breaker'.failure_count = 0
                   /\ calls'[t].out = Return(OpResult)
             /\ breaker'.state = "CLOSED" => breaker'.failure_count < k
             /\ (breaker.state = "CLOSED" /\ breaker'.state /= "CLOSED")
                => /\ \E u \in Threads, exc \in FuncErrors : CbRaise(u, exc)
                   /\ breaker'.state = "OPEN"
                   /\ breaker.failure_count = k - 1
                   /\ breaker'.failure_count = k]_vars

\* C24: a call or call_async that has read state OPEN and comes to the test
\* of the recovery timeout while the state is OPEN raises RuntimeError, without
\* the function being invoked and with state and failure_count as they were,
\* when less than recovery_timeout has passed since the last failure; once it
\* has passed, the call sets HALF_OPEN and invokes the function as the trial;
\* and when the function of a trial call returns, the breaker is CLOSED.
C24_RejectThenTrial ==
    [][\A t \in Threads :
         /\ (CbGate(t) /\ breaker.state = "OPEN" /\ ~RecoveryElapsed(breaker, now))
            => /\ calls'[t].out = Raise("RuntimeError")
               /\ ~calls'[t].invoked
               /\ calls'[t].pc = "idle"
               /\ breaker'.state = breaker.state
               /\ breaker'.failure_count = breaker.failure_count
         /\ (CbGate(t) /\ breaker.state = "OPEN" /\ RecoveryElapsed(breaker, now))
            => /\ calls'[t].trial
               /\ calls'[t].invoked
               /\ calls'[t].pc = "run"
               /\ breaker'.state = "HALF_OPEN"
         /\ (CbReturn(t) /\ calls[t].trial)
            => breaker'.state = "CLOSED"]_vars

\* An exception class the wrapper retries on: one of config.exceptions, any
\* class for a config that names none.
Retryable(config, type) ==
    "exceptions" \in DOMAIN config => IsInstance(type, config.exceptions)

\* C25: the function is never invoked more than max_attempts times in one
\* call of the wrapper; when it returns, the wrapper returns its result with
\* no further invocation; when an invocation raises a retryable exception the
\* wrapper goes on, and then invokes the function again if fewer than
\* max_attempts invocations have been made, and otherwise raises that last
\* exception with exactly max_attempts invocations made.
C25_AtMostMaxAttempts ==
    [][LET n == max_attempts(retry.config)
       IN  /\ retry'.invocations <= n
           /\ RtReturn
              => /\ retry'.pc = "idle"
                 /\ retry'.out = Return(OpResult)
                 /\ retry'.invocations = retry.invocations
           /\ \A type \in FuncErrors :
                (RtRaise(type) /\ Retryable(retry.config, type))
                => /\ retry'.pc = "sleep"
                   /\ retry'.last_exception = Exc(type, retry.invocations)
                   /\ retry'.invocations = retry.invocations
           /\ RtWake
              => IF retry.invocations < n
                 THEN retry'.pc = "func" /\ retry'.invocations = retry.invocations + 1
                 ELSE /\ retry'.pc = "idle"
                      /\ retry'.out = Raise(retry.last_exception)
                      /\ retry'.invocations = n]_vars

C27_OneEventPerRun ==
    [][\A t \in Threads :
         LET e == events'[Len(events')]
         IN  /\ (Complete(t, "ok") /\ Top(stack[t]).started)
                => /\ events' /= <<>>
                   /\ events' = DequeAppend(events, e)
                   /\ e.typ = "SUCCESS" /\ e.sev = 0 /\ e.t = now
             /\ (EndStep(t) /\ ~Complete(t, "ok") /\ Top(stack[t]).started)
                => /\ events' /= <<>>
                   /\ events' = DequeAppend(events, e)
                   /\ e.typ = "FAILURE" /\ e.t = now
             /\ \A key \in CallKeys : AdmitStep(t, key) => events' = events]_vars

\* Three calls have been made and have finished: the first ran and failed,
\* the second was rejected with OPEN, the third was blocked in the cooldown;
\* the buffer holds the one event of the first.
C27_Witness ==
    /\ n_exec = 3
    /\ \A t \in Threads : stack[t] = <<>>
    /\ log = <<"FAIL", "ERROR", "TRIP", "OPEN", "BLOCK">>
    /\ last.path = "BLOCK"
    /\ Len(events) = 1
    /\ events[1].typ = "FAILURE"

\* C28: a call that goes through admission in state OPEN with the cooldown
\* over while the risk score exceeds the threshold is not run: no operation
\* is started, the state stays OPEN, last_event becomes the time of the call,
\* one OPEN entry is appended, and the caller gets Mitigation.apply(key).
C28_ReopenRestartsCooldown ==
    [][\A t \in Threads, key \in CallKeys :
         (/\ AdmitStep(t, key)
          /\ state = "OPEN"
          /\ now - last_event >= cooldown
          /\ RiskExceeds(params, events, now))
         => /\ stack'[t] = Below(t)
            /\ op_calls' = op_calls
            /\ state' = "OPEN"
            /\ last_event' = now
            /\ log' = Append(log, "OPEN")
            /\ events' = events
            /\ last'.out = apply(cache, fallback, key).out]_vars

\* A call has just been rejected with OPEN in state OPEN, a cooldown after
\* the breaker had opened, and the cooldown has started again.
C28_Witness ==
    /\ last.path = "OPEN"
    /\ last.state0 = "OPEN"
    /\ last.at = now
    /\ state = "OPEN"
    /\ last_event = now
    /\ now - Epoch >= cooldown
    /\ Len(log) >= 2
    /\ SubSeq(log, Len(log) - 1, Len(log)) = <<"OPEN", "OPEN">>

\* C29: a log_event whose write fails leaves _last_hash as it was before the
\* call: whenever no log_event is in progress, _last_hash is the digest of
\* the last line of the logfile (the digest of the empty string for an empty
\* file), which is what the next line will be chained to.
C29_FailureAtomic ==
    logger_lock = NoThread
    => last_hash = IF sink = <<>> THEN EmptyHash ELSE sink[Len(sink)].hash

\* C30: the operation of every call that is admitted to run is started, and
\* a call ends as a timeout only if its operation had been started (and the
\* time budget has run out since): operations abandoned earlier do not keep
\* a later one from starting.
C30_AbandonedNeverStarve ==
    [][\A t \in Threads :
         /\ \A key \in CallKeys :
              (AdmitStep(t, key) /\ stack'[t] /= Below(t))
              => /\ Top(stack'[t]).started
                 /\ op_calls' = op_calls + 1
         /\ Timeout(t)
            => /\ Top(stack[t]).started
               /\ now - Top(stack[t]).now >= time_budget]_vars

====
